---- MODULE Spec2Model ----
(***************************************************************************)
(* A model of src/app.py: the history codec (serialize_content,            *)
(* deserialize_content), the tool check_health_status, the orchestrator    *)
(* get_gemini_response and the two Flask routes index and ask, over the    *)
(* per-client Flask session.                                               *)
(*                                                                         *)
(* Python values are represented as follows.                               *)
(*   - a str is a TLA+ string; the value None where a str is expected      *)
(*     (Part.text, Content.role, response.text, a missing form field) is   *)
(*     the reserved string NoneStr, which no modelled input equals;        *)
(*   - the object None (a Content, a stored entry) is the record None;     *)
(*   - a dict is a record holding every key the code reads; a key the      *)
(*     dict does not hold has the reserved value Missing;                  *)
(*   - a raised exception is a record [raises |-> type, error |-> str(e)]. *)
(***************************************************************************)
EXTENDS Integers, Sequences, FiniteSets, TLC

VARIABLES
    session,    \* session[s]: the Flask session of client s
    req,        \* req[w]: the request that worker w handles, with its locals
    codec,      \* a Turn taken through serialize_content and deserialize_content
    tool        \* a metric given to check_health_status, and its result

vars == <<session, req, codec, tool>>

----------------------------------------------------------------------------
(* Bounds and finite input domains *)

\* accepted POST /ask requests (over all sessions) a behaviour may hold
MaxPosts == 2

\* content parts a Turn given to the codec may hold
MaxParts == 2

Sessions == {"A", "B"}

Workers == {1, 2}

----------------------------------------------------------------------------
(* Python values *)

NoneStr == "<None>"

Missing == "<missing>"

None == [isNone |-> TRUE]

\* bool(x) of a str-or-None value x
Truthy(x) == x # NoneStr /\ x # ""

\* the outcome of a call: it raised, or it returned a value
Raise(type, error) == [raises |-> type, error |-> error]

Return(value) == [returns |-> value]

IsRaise(v) == "raises" \in DOMAIN v

\* types.Part(text=...): the attribute text is None on a part that is not text
Part(text) == [text |-> text]

\* types.Content(role=..., parts=[...])
Content(role, parts) == [role |-> role, parts |-> parts]

\* a part holding a function call requested by the model
FunctionCallPart(name, args) ==
    [text |-> NoneStr, function_call |-> [name |-> name, args |-> args]]

\* types.FunctionResponse(name=..., response={'result': ...}), held in the
\* part list as the code writes it
FunctionResponse(name, result) ==
    [text |-> NoneStr,
     function_response |-> [name |-> name, response |-> [result |-> result]]]

----------------------------------------------------------------------------
(* Strings: str.lower() and the operator `in` on str *)

LowerChar(c) ==
    CASE c = "A" -> "a" [] c = "B" -> "b" [] c = "C" -> "c" [] c = "D" -> "d"
      [] c = "E" -> "e" [] c = "F" -> "f" [] c = "G" -> "g" [] c = "H" -> "h"
      [] c = "I" -> "i" [] c = "J" -> "j" [] c = "K" -> "k" [] c = "L" -> "l"
      [] c = "M" -> "m" [] c = "N" -> "n" [] c = "O" -> "o" [] c = "P" -> "p"
      [] c = "Q" -> "q" [] c = "R" -> "r" [] c = "S" -> "s" [] c = "T" -> "t"
      [] c = "U" -> "u" [] c = "V" -> "v" [] c = "W" -> "w" [] c = "X" -> "x"
      [] c = "Y" -> "y" [] c = "Z" -> "z" [] c = "Á" -> "á" [] c = "É" -> "é"
      [] c = "Í" -> "í" [] c = "Ó" -> "ó" [] c = "Ú" -> "ú" [] c = "Ñ" -> "ñ"
      [] OTHER -> c

RECURSIVE lower(_)
lower(s) ==
    IF Len(s) = 0 THEN ""
    ELSE LowerChar(SubSeq(s, 1, 1)) \o lower(SubSeq(s, 2, Len(s)))

\* sub in s
In(sub, s) ==
    \E i \in 1..(Len(s) - Len(sub) + 1) : SubSeq(s, i, i + Len(sub) - 1) = sub

----------------------------------------------------------------------------
(* The tool *)

MOVIMIENTO_STATUS ==
    "El último movimiento registrado fue hace 2 horas en la sala. Es hora de un recordatorio para caminar un poco."

PRESION_STATUS ==
    "Presión arterial registrada: 145/90. Ligeramente alta. Se recomienda descanso y reevaluación en 15 minutos."

NotMonitored(metric) ==
    "Métrica de salud '" \o metric \o "' no monitoreada actualmente."

\* mutation: the pressure keyword is looked for first
CheckPressureFirst(metric) ==
    IF In("presión", lower(metric)) THEN PRESION_STATUS
    ELSE IF In("movimiento", lower(metric)) THEN MOVIMIENTO_STATUS
    ELSE NotMonitored(metric)

check_health_status(metric) ==
    IF In("movimiento", lower(metric)) THEN MOVIMIENTO_STATUS
    ELSE IF In("presión", lower(metric)) THEN PRESION_STATUS
    ELSE NotMonitored(metric)

\* a keyword-arguments mapping: the value of key metric (Missing when the key
\* is absent) and the name of one further key (Missing when there is none)
Args(metric, other) == [metric |-> metric, other |-> other]

\* check_health_status(**function_args): Python binds the keywords first
CallTool(function_args) ==
    IF function_args.other # Missing
    THEN Raise("TypeError",
               "check_health_status() got an unexpected keyword argument '"
                   \o function_args.other \o "'")
    ELSE IF function_args.metric = Missing
    THEN Raise("TypeError",
               "check_health_status() missing 1 required positional argument: 'metric'")
    ELSE Return(check_health_status(function_args.metric))

----------------------------------------------------------------------------
(* The history codec *)

\* mutation: the text is taken from the last part, not the first
SerializeLastPart(content) ==
    IF content # None /\ content.parts # <<>> /\ Truthy(content.parts[1].text)
    THEN [role |-> content.role, text |-> content.parts[Len(content.parts)].text]
    ELSE None

serialize_content(content) ==
    IF content # None /\ content.parts # <<>> /\ Truthy(content.parts[1].text)
    THEN [role |-> content.role, text |-> content.parts[1].text]
    ELSE None

EmptyDict == [role |-> Missing, text |-> Missing]

\* mutation: data['role'] and data['text'], without the test of data itself
DeserializeUnguarded(data) ==
    IF data = None THEN Raise("TypeError", "'NoneType' object is not subscriptable")
    ELSE IF data.role = Missing THEN Raise("KeyError", "'role'")
    ELSE IF ~Truthy(data.role) THEN None
    ELSE IF data.text = Missing THEN Raise("KeyError", "'text'")
    ELSE IF ~Truthy(data.text) THEN None
    ELSE Content(data.role, <<Part(data.text)>>)

\* data and data['role'] and data['text']: a subscript of a key the dict does
\* not hold raises KeyError, unless an operand to its left is already falsy
deserialize_content(data) ==
    IF data = None \/ data = EmptyDict THEN None
    ELSE IF data.role = Missing THEN Raise("KeyError", "'role'")
    ELSE IF ~Truthy(data.role) THEN None
    ELSE IF data.text = Missing THEN Raise("KeyError", "'text'")
    ELSE IF ~Truthy(data.text) THEN None
    ELSE Content(data.role, <<Part(data.text)>>)

----------------------------------------------------------------------------
(* The external model: what client.models.generate_content can do *)

\* a reply: response.text, response.function_calls, response.candidates[0].content
Response(text, function_calls) ==
    [text |-> text,
     function_calls |-> function_calls,
     content |->
        Content("model",
                (IF text = NoneStr THEN <<>> ELSE <<Part(text)>>)
                \o [i \in 1..Len(function_calls) |->
                       FunctionCallPart(function_calls[i].name,
                                        function_calls[i].args)])]

FunctionCall(name, args) == [name |-> name, args |-> args]

CallMovimiento == FunctionCall("check_health_status", Args("Último Movimiento", Missing))

CallGlucosa == FunctionCall("check_health_status", Args("glucosa", Missing))

CallBadKeyword == FunctionCall("check_health_status", Args(Missing, "nivel"))

CallNoArgs == FunctionCall("check_health_status", None)

CallUnknown == FunctionCall("llamar_emergencias", Args(Missing, Missing))

CallUnknownNoArgs == FunctionCall("llamar_emergencias", None)

ClientErrors == {Raise("ServerError", "503 UNAVAILABLE")}

Replies ==
    {Response(t, <<>>) : t \in {NoneStr, "", "Buenos días."}}
    \cup {Response(NoneStr, <<c>>) :
            c \in {CallMovimiento, CallGlucosa, CallBadKeyword, CallNoArgs,
                   CallUnknown, CallUnknownNoArgs}}
    \cup {Response("Un momento.", <<CallMovimiento>>),
          Response(NoneStr, <<CallUnknown, CallMovimiento>>)}
    \cup ClientErrors

\* the form field user_input: absent, empty, or a message
UserInputs == {NoneStr, "", "hola", "¿me he movido hoy?"}

----------------------------------------------------------------------------
(* The orchestrator get_gemini_response, between its external calls *)

FALLBACK == "Resultado: La función solicitada no está disponible."

\* mutation: the message does not embed the error
ApologyWithoutError(e) ==
    "Lo siento, ocurrió un error en el sistema. Intenta de nuevo."

Apology(e) ==
    "Lo siento, ocurrió un error en el sistema: " \o e \o ". Intenta de nuevo."

UserTurn(user_input) == Content("user", <<Part(user_input)>>)

\* mutation: the new user Turn is put in front of the history
InitialContentsUserFirst(user_input, chat_history) ==
    <<UserTurn(user_input)>> \o chat_history

\* contents = [*chat_history, types.Content(role="user", ...)]
InitialContents(user_input, chat_history) ==
    chat_history \o <<UserTurn(user_input)>>

\* mutation: the last of the requested calls is served
SelectedLast(function_calls) == function_calls[Len(function_calls)]

\* function_call = response.function_calls[0]
SelectedCall(function_calls) == function_calls[1]

\* dict(function_call.args), then the registry lookup by name
Dispatch(function_call) ==
    IF function_call.args = None
    THEN Raise("TypeError", "'NoneType' object is not iterable")
    ELSE IF function_call.name = "check_health_status"
    THEN CallTool(function_call.args)
    ELSE Return(FALLBACK)

\* whether Dispatch reaches the call of the local function
InvokesTool(function_call) ==
    function_call.args # None /\ function_call.name = "check_health_status"

FunctionTurn(function_name, function_result) ==
    Content("function", <<FunctionResponse(function_name, function_result)>>)

\* mutation: the model's tool-call Turn is not appended
SecondContentsWithoutCall(contents, response, function_result) ==
    contents \o <<FunctionTurn(response.function_calls[1].name, function_result)>>

\* contents after the two appends that precede the second call
SecondContents(contents, response, function_result) ==
    contents \o <<response.content,
                  FunctionTurn(SelectedCall(response.function_calls).name,
                               function_result)>>

----------------------------------------------------------------------------
(* The session and the routes *)

\* a session without the key 'chat_history'
NoHistory == [has |-> FALSE, chat_history |-> <<>>]

StoredHistory(chat_history) == [has |-> TRUE, chat_history |-> chat_history]

\* session.get('chat_history', [])
SessionGet(sess) == IF sess.has THEN sess.chat_history ELSE <<>>

\* mutation: the page load clears the history
IndexClears(sess) == StoredHistory(<<>>)

\* if 'chat_history' not in session: session['chat_history'] = []
IndexEffect(sess) == IF ~sess.has THEN StoredHistory(<<>>) ELSE sess

NoBody == [error |-> Missing, response |-> Missing, user_input |-> Missing]

ErrorBody == [error |-> "No se recibió mensaje", response |-> Missing,
              user_input |-> Missing]

AnswerBody(ai_response_text, user_input) ==
    [error |-> Missing, response |-> ai_response_text, user_input |-> user_input]

\* mutation: only a missing field is rejected (user_input is None)
RejectedOnlyMissing(user_input) == user_input = NoneStr

\* if not user_input
Rejected(user_input) == ~Truthy(user_input)

\* mutation: the new entries are inserted in front of the list
AppendedInFront(serialized_history, entries) == entries \o serialized_history

\* serialized_history after its appends
Appended(serialized_history, entries) == serialized_history \o entries

\* mutation: one history shared by every client
SessionWriteShared(sessions, sid, sess) == [s \in Sessions |-> sess]

\* an assignment to session[...]: the session of the request's own client
SessionWrite(sessions, sid, sess) == [sessions EXCEPT ![sid] = sess]

\* a worker that handles no request, and the locals of a request
IdleReq ==
    [op |-> "none", pc |-> "idle", sid |-> "A", user_input |-> NoneStr,
     before |-> NoHistory, gemini_history |-> <<>>, contents |-> <<>>,
     calls |-> <<>>, replies |-> <<>>, invoked |-> <<>>,
     ai_response_text |-> NoneStr, status |-> 0, body |-> NoBody]

\* the two lists of ask: [deserialize_content(item) for item in ...], then
\* the same without the None items
Decoded(serialized_history) ==
    [i \in 1..Len(serialized_history) |-> deserialize_content(serialized_history[i])]

NotNone(item) == item # None

\* the entries ask appends to serialized_history
NewEntries(user_input, ai_response_text) ==
    <<serialize_content(Content("user", <<Part(user_input)>>)),
      serialize_content(Content("model", <<Part(ai_response_text)>>))>>

\* POST requests accepted so far: those stored and those being handled
Accepted ==
    LET RECURSIVE Sum(_)
        Sum(S) == IF S = {} THEN 0
                  ELSE LET s == CHOOSE x \in S : TRUE
                       IN Len(session[s].chat_history) \div 2 + Sum(S \ {s})
    IN Sum(Sessions)
       + Cardinality({w \in Workers : req[w].pc \in {"CALL_1", "CALL_2", "respond"}})

Free(w) == req[w].pc \in {"idle", "done"}

\* requests are handled one at a time
Serial == \A w \in Workers : Free(w)

NoCodec == [pc |-> "none", turn |-> None, record |-> None, decoded |-> None]

NoTool == [pc |-> "none", metric |-> "", result |-> ""]

Init ==
    /\ session = [s \in Sessions |-> NoHistory]
    /\ req = [w \in Workers |-> IdleReq]
    /\ codec = NoCodec
    /\ tool = NoTool

\* GET /
index(w, s) ==
    /\ Free(w)
    /\ session' = SessionWrite(session, s, IndexEffect(session[s]))
    /\ req' = [req EXCEPT ![w] =
                 [IdleReq EXCEPT !.op = "GET", !.pc = "done", !.sid = s,
                                 !.before = session[s], !.status = 200]]
    /\ UNCHANGED <<codec, tool>>

\* POST /ask up to the first external call: the form field, the stored
\* history and its decoding, and the transcript of the first request
ask(w, s, user_input) ==
    /\ Free(w)
    /\ ~Rejected(user_input) => Accepted < MaxPosts
    /\ LET q == [IdleReq EXCEPT !.op = "POST", !.sid = s,
                                !.user_input = user_input,
                                !.before = session[s]]
           serialized_history == SessionGet(session[s])
           decoded == Decoded(serialized_history)
           gemini_history == SelectSeq(decoded, NotNone)
       IN req' = [req EXCEPT ![w] =
            IF Rejected(user_input)
            THEN [q EXCEPT !.pc = "done", !.status = 400, !.body = ErrorBody]
            ELSE IF \E i \in 1..Len(decoded) : IsRaise(decoded[i])
            THEN [q EXCEPT !.pc = "done", !.status = 500]
            ELSE [q EXCEPT !.pc = "CALL_1",
                           !.gemini_history = gemini_history,
                           !.contents = InitialContents(user_input, gemini_history)]]
    /\ UNCHANGED <<session, codec, tool>>

\* the first generate_content with its reply, and what follows it up to
\* the second call or the return
CALL_1(w, response) ==
    /\ req[w].pc = "CALL_1"
    /\ LET q == [req[w] EXCEPT !.calls = <<req[w].contents>>,
                               !.replies = <<response>>]
       IN req' = [req EXCEPT ![w] =
            IF IsRaise(response)
            THEN [q EXCEPT !.pc = "respond",
                           !.ai_response_text = Apology(response.error)]
            ELSE IF response.function_calls # <<>>
            THEN LET function_call == SelectedCall(response.function_calls)
                     function_result == Dispatch(function_call)
                     p == [q EXCEPT !.invoked =
                             IF InvokesTool(function_call)
                             THEN <<function_call.args>> ELSE <<>>]
                 IN IF IsRaise(function_result)
                    THEN [p EXCEPT !.pc = "respond",
                                   !.ai_response_text = Apology(function_result.error)]
                    ELSE [p EXCEPT !.pc = "CALL_2",
                                   !.contents = SecondContents(q.contents, response,
                                                               function_result.returns)]
            ELSE [q EXCEPT !.pc = "respond", !.ai_response_text = response.text]]
    /\ UNCHANGED <<session, codec, tool>>

\* mutation: a second call that raises is issued once more
CALL_2_Retry(w, second_response) ==
    /\ req[w].pc = "CALL_2"
    /\ LET q == [req[w] EXCEPT !.calls = Append(req[w].calls, req[w].contents),
                               !.replies = Append(req[w].replies, second_response)]
       IN req' = [req EXCEPT ![w] =
            IF IsRaise(second_response)
            THEN IF Len(q.calls) < 3
                 THEN q
                 ELSE [q EXCEPT !.pc = "respond",
                                !.ai_response_text = Apology(second_response.error)]
            ELSE [q EXCEPT !.pc = "respond",
                           !.ai_response_text = second_response.text]]
    /\ UNCHANGED <<session, codec, tool>>

\* the second generate_content with its reply
CALL_2(w, second_response) ==
    /\ req[w].pc = "CALL_2"
    /\ LET q == [req[w] EXCEPT !.calls = Append(req[w].calls, req[w].contents),
                               !.replies = Append(req[w].replies, second_response)]
       IN req' = [req EXCEPT ![w] =
            IF IsRaise(second_response)
            THEN [q EXCEPT !.pc = "respond",
                           !.ai_response_text = Apology(second_response.error)]
            ELSE [q EXCEPT !.pc = "respond",
                           !.ai_response_text = second_response.text]]
    /\ UNCHANGED <<session, codec, tool>>

\* mutation: the history is read again from the session when it is written
AskRespondReread(w) ==
    /\ req[w].pc = "respond"
    /\ LET q == req[w]
           serialized_history ==
               Appended(SessionGet(session[q.sid]),
                        NewEntries(q.user_input, q.ai_response_text))
       IN /\ session' = SessionWrite(session, q.sid, StoredHistory(serialized_history))
          /\ req' = [req EXCEPT ![w] =
               [q EXCEPT !.pc = "done", !.status = 200,
                         !.body = AnswerBody(q.ai_response_text, q.user_input)]]
          /\ UNCHANGED <<codec, tool>>

\* POST /ask after get_gemini_response returned: the two appends, the
\* session write and the answer
ask_respond(w) ==
    /\ req[w].pc = "respond"
    /\ LET q == req[w]
           serialized_history ==
               Appended(SessionGet(q.before),
                        NewEntries(q.user_input, q.ai_response_text))
       IN /\ session' = SessionWrite(session, q.sid, StoredHistory(serialized_history))
          /\ req' = [req EXCEPT ![w] =
               [q EXCEPT !.pc = "done", !.status = 200,
                         !.body = AnswerBody(q.ai_response_text, q.user_input)]]
          /\ UNCHANGED <<codec, tool>>

\* one request at a time, handled by worker 1
Next ==
    \/ \E s \in Sessions : Serial /\ index(1, s)
    \/ \E s \in Sessions, user_input \in UserInputs : Serial /\ ask(1, s, user_input)
    \/ \E response \in Replies : CALL_1(1, response)
    \/ \E second_response \in Replies : CALL_2(1, second_response)
    \/ ask_respond(1)

Spec == Init /\ [][Next]_vars

----------------------------------------------------------------------------
(* Overlapping requests: every worker handles requests of any session, and
   the steps of the workers interleave. A request reads its session when it
   starts and writes it when it answers. The replies and the inputs are
   those that tell two requests apart; the others are covered by Spec. *)

RepliesConc ==
    {Response("Buenos días.", <<>>), Response(NoneStr, <<CallMovimiento>>)}

UserInputsConc == {"hola", "¿me he movido hoy?"}

NextConc ==
    \/ \E w \in Workers, s \in Sessions : index(w, s)
    \/ \E w \in Workers, s \in Sessions, user_input \in UserInputsConc :
          ask(w, s, user_input)
    \/ \E w \in Workers, response \in RepliesConc : CALL_1(w, response)
    \/ \E w \in Workers, second_response \in RepliesConc :
          CALL_2(w, second_response)
    \/ \E w \in Workers : ask_respond(w)

SpecConc == Init /\ [][NextConc]_vars

----------------------------------------------------------------------------
(* The codec on its own: every Turn of the domain, encoded and then decoded *)

Roles == {"user", "model", "function", "", NoneStr}

Texts == {NoneStr, "", "hola", "Buenos días."}

RECURSIVE PartLists(_)
PartLists(n) ==
    IF n = 0 THEN {<<>>}
    ELSE PartLists(n - 1)
         \cup {Append(ps, Part(t)) :
                 ps \in {x \in PartLists(n - 1) : Len(x) = n - 1}, t \in Texts}

Turns == {Content(r, ps) : r \in Roles, ps \in PartLists(MaxParts)} \cup {None}

\* the flat records deserialize_content may be given: a dict with or without
\* each of its two keys, or None
FlatRecords ==
    {[role |-> r, text |-> t] :
        r \in {Missing, NoneStr, "", "user", "model"},
        t \in {Missing, NoneStr, "", "hola"}}
    \cup {None}

InitCodec ==
    /\ session = [s \in Sessions |-> NoHistory]
    /\ req = [w \in Workers |-> IdleReq]
    /\ tool = NoTool
    /\ codec \in {[NoCodec EXCEPT !.pc = "turn", !.turn = t] : t \in Turns}
                 \cup {[NoCodec EXCEPT !.pc = "record", !.record = r] :
                          r \in FlatRecords}

Encode ==
    /\ codec.pc = "turn"
    /\ codec' = [codec EXCEPT !.pc = "encoded",
                              !.record = serialize_content(codec.turn)]
    /\ UNCHANGED <<session, req, tool>>

Decode ==
    /\ codec.pc = "encoded"
    /\ codec' = [codec EXCEPT !.pc = "decoded",
                              !.decoded = deserialize_content(codec.record)]
    /\ UNCHANGED <<session, req, tool>>

\* deserialize_content on a flat record that no Turn was encoded to
DecodeRecord ==
    /\ codec.pc = "record"
    /\ codec' = [codec EXCEPT !.pc = "decoded_record",
                              !.decoded = deserialize_content(codec.record)]
    /\ UNCHANGED <<session, req, tool>>

NextCodec == Encode \/ Decode \/ DecodeRecord

SpecCodec == InitCodec /\ [][NextCodec]_vars

----------------------------------------------------------------------------
(* The tool alone: check_health_status applied to one metric *)

MetricPrefixes == {"", "último ", "Mi "}

MetricWords ==
    {"movimiento", "Movimiento", "MOVIMIENTO", "presión", "Presión", "PRESIÓN",
     "presion", "movimient", "glucosa", ""}

MetricSuffixes == {"", " hoy", " y presión", " y MOVIMIENTO"}

\* the values of the parameter metric
Metrics ==
    {p \o k \o x : p \in MetricPrefixes, k \in MetricWords, x \in MetricSuffixes}

InitTool ==
    /\ session = [s \in Sessions |-> NoHistory]
    /\ req = [w \in Workers |-> IdleReq]
    /\ codec = NoCodec
    /\ \E metric \in Metrics :
          tool = [pc |-> "metric", metric |-> metric, result |-> ""]

CheckHealth ==
    /\ tool.pc = "metric"
    /\ tool' = [tool EXCEPT !.pc = "checked",
                            !.result = check_health_status(tool.metric)]
    /\ UNCHANGED <<session, req, codec>>

NextTool == CheckHealth

SpecTool == InitTool /\ [][NextTool]_vars

----------------------------------------------------------------------------
(* Properties of the routes, checked under Spec *)

IsPrefix(a, b) == Len(a) <= Len(b) /\ SubSeq(b, 1, Len(a)) = a

Last(seq) == seq[Len(seq)]

\* C1: a POST /ask whose user_input is missing or empty is answered 400 with
\* the error-only body at once: it never reaches an external call or a tool
\* invocation, and the session is as it was before the request.
C1_EmptyInputRejected ==
    \A w \in Workers :
        LET q == req[w]
        IN (q.op = "POST" /\ ~Truthy(q.user_input)) =>
              /\ q.pc = "done"
              /\ q.status = 400
              /\ q.body = [error |-> "No se recibió mensaje",
                           response |-> Missing, user_input |-> Missing]
              /\ q.calls = <<>> /\ q.replies = <<>> /\ q.invoked = <<>>
              /\ session[q.sid] = q.before

\* an empty user_input was rejected in a session that holds a history
C1_Witness ==
    \E w \in Workers :
        /\ req[w].op = "POST" /\ req[w].pc = "done" /\ req[w].user_input = ""
        /\ req[w].status = 400
        /\ Len(session[req[w].sid].chat_history) = 2

\* C2: every accepted POST /ask answers 200 and appends exactly two records,
\* {role: user, text: user_input} then {role: model, text: T}, T being the
\* response field of the body, whose user_input field is the submitted input.
C2_TwoTurnsAppended ==
    \A w \in Workers :
        LET q == req[w]
        IN (q.op = "POST" /\ q.pc = "done" /\ Truthy(q.user_input)) =>
              /\ q.status = 200
              /\ q.body.user_input = q.user_input
              /\ session[q.sid].chat_history =
                    SessionGet(q.before)
                    \o <<[role |-> "user", text |-> q.user_input],
                         [role |-> "model", text |-> q.body.response]>>

\* C3: no stored history holds a None entry or a record without text.
C3_NoNoneStored ==
    \A s \in Sessions :
        \A i \in 1..Len(session[s].chat_history) :
            /\ session[s].chat_history[i] # None
            /\ Truthy(session[s].chat_history[i].text)

\* C4: with requests handled one at a time, every step leaves each session's
\* stored history a prefix of what it is afterwards: records are only added
\* at the end, never removed, rewritten or reordered.
C4_AppendOnly ==
    [][\A s \in Sessions :
          IsPrefix(SessionGet(session[s]), SessionGet(session'[s]))]_vars

\* a second POST of a session has stored its records after those of the first
C4_Witness ==
    \E w \in Workers :
        /\ req[w].op = "POST" /\ req[w].pc = "done" /\ req[w].status = 200
        /\ Len(req[w].before.chat_history) = 2
        /\ Len(session[req[w].sid].chat_history) = 4

\* the first reply of request q asks for tools, the first of them named so
FirstCallNamed(q, names) ==
    /\ Len(q.replies) >= 1
    /\ ~IsRaise(q.replies[1])
    /\ q.replies[1].function_calls # <<>>
    /\ q.replies[1].function_calls[1].name \in names

\* the keyword arguments bind exactly the parameter metric
BindsMetric(args) ==
    args # None /\ args.other = Missing /\ args.metric # Missing

ApologyText(e) ==
    "Lo siento, ocurrió un error en el sistema: " \o e \o ". Intenta de nuevo."

ToolResultTurn(name, result) ==
    [role |-> "function",
     parts |-> <<[text |-> NoneStr,
                  function_response |->
                      [name |-> name, response |-> [result |-> result]]]>>]

C6_UnknownToolFallback ==
    \A w \in Workers :
        LET q == req[w]
            fc == q.replies[1].function_calls[1]
        IN (q.op = "POST" /\ q.pc \in {"respond", "done"}
              /\ Len(q.replies) >= 1 /\ ~IsRaise(q.replies[1])
              /\ q.replies[1].function_calls # <<>>
              /\ fc.name # "check_health_status") =>
              /\ q.invoked = <<>>
              /\ Len(q.calls) = 2
              /\ q.calls[2] =
                    q.calls[1]
                    \o <<q.replies[1].content,
                         ToolResultTurn(fc.name,
                             "Resultado: La función solicitada no está disponible.")>>
              /\ ~IsRaise(q.replies[2]) => q.ai_response_text = q.replies[2].text

\* the error text of the failure request q met: of the first call, else of
\* the dispatch of the tool, else of the second call; NoneStr without failure
FailureOf(q) ==
    IF Len(q.replies) = 0 THEN NoneStr
    ELSE IF IsRaise(q.replies[1]) THEN q.replies[1].error
    ELSE IF q.replies[1].function_calls # <<>>
            /\ q.replies[1].function_calls[1].args = None
    THEN "'NoneType' object is not iterable"
    ELSE IF q.replies[1].function_calls # <<>>
            /\ q.replies[1].function_calls[1].name = "check_health_status"
            /\ IsRaise(CallTool(q.replies[1].function_calls[1].args))
    THEN CallTool(q.replies[1].function_calls[1].args).error
    ELSE IF Len(q.replies) = 2 /\ IsRaise(q.replies[2]) THEN q.replies[2].error
    ELSE NoneStr

\* C7: when the external client raises at the first or the second call, or
\* the tool raises on its arguments, the orchestrator returns the apology
\* embedding the error's text; the POST answers 200 with it as response and
\* stores it as the text of the model record it appends.
C7_FailureBecomesApology ==
    \A w \in Workers :
        LET q == req[w]
        IN (q.op = "POST" /\ q.pc \in {"respond", "done"}
              /\ FailureOf(q) # NoneStr) =>
              /\ q.ai_response_text = ApologyText(FailureOf(q))
              /\ q.pc = "done" =>
                    /\ q.status = 200
                    /\ q.body.response = ApologyText(FailureOf(q))
                    /\ Len(session[q.sid].chat_history)
                          = Len(q.before.chat_history) + 2
                    /\ Last(session[q.sid].chat_history)
                          = [role |-> "model", text |-> ApologyText(FailureOf(q))]

\* the second call failed after a served tool call, and the POST answered
C7_Witness ==
    \E w \in Workers :
        /\ req[w].pc = "done" /\ req[w].status = 200
        /\ Len(req[w].replies) = 2 /\ IsRaise(req[w].replies[2])
        /\ req[w].body.response
              = "Lo siento, ocurrió un error en el sistema: 503 UNAVAILABLE. Intenta de nuevo."

\* C8: a request never ends in an unhandled exception: a POST /ask ends 400
\* when its input is missing or empty and 200 otherwise, whatever the stored
\* history and the external model's replies; no stored entry makes the
\* decoding raise.
C8_NothingThrown ==
    /\ \A w \in Workers :
          /\ req[w].pc = "done" => req[w].status \in {200, 400}
          /\ (req[w].op = "POST" /\ req[w].pc = "done") =>
                req[w].status = IF Truthy(req[w].user_input) THEN 200 ELSE 400
          /\ req[w].pc \in {"idle", "done", "CALL_1", "CALL_2", "respond"}
    /\ \A s \in Sessions :
          \A i \in 1..Len(session[s].chat_history) :
              ~IsRaise(deserialize_content(session[s].chat_history[i]))

\* a POST was answered 200 over a stored history that holds a None entry
C8_Witness ==
    \E w \in Workers :
        /\ req[w].op = "POST" /\ req[w].pc = "done" /\ req[w].status = 200
        /\ \E i \in 1..Len(req[w].before.chat_history) :
              req[w].before.chat_history[i] = None

----------------------------------------------------------------------------
(* Properties of the codec, checked under SpecCodec *)

\* C10 as claimed: decoding the encoding of a single-part Turn with non-empty
\* text gives the Turn back, and of a Turn with more parts gives the Turn
\* reduced to its first part's text.
C10_Original ==
    (codec.pc = "decoded" /\ codec.turn # None) =>
        /\ (Len(codec.turn.parts) = 1 /\ Truthy(codec.turn.parts[1].text)) =>
              codec.decoded = codec.turn
        /\ Len(codec.turn.parts) > 1 =>
              codec.decoded = [role |-> codec.turn.role,
                               parts |-> <<[text |-> codec.turn.parts[1].text]>>]

\* C10: for a Turn whose role is set (non-empty) and whose first part has
\* non-empty text, decoding its encoding gives the Turn back when it has one
\* part, and the Turn reduced to its first part's text when it has more; for
\* any other Turn it gives none.
C10_RoundTrip ==
    codec.pc = "decoded" =>
        IF /\ codec.turn # None
           /\ Truthy(codec.turn.role)
           /\ Len(codec.turn.parts) >= 1
           /\ Truthy(codec.turn.parts[1].text)
        THEN /\ codec.decoded = [role |-> codec.turn.role,
                                 parts |-> <<[text |-> codec.turn.parts[1].text]>>]
             /\ Len(codec.turn.parts) = 1 => codec.decoded = codec.turn
        ELSE codec.decoded = [isNone |-> TRUE]

\* a two-part Turn went through the codec and lost its second part
C10_Witness ==
    /\ codec.pc = "decoded"
    /\ codec.turn = Content("model", <<Part("hola"), Part("Buenos días.")>>)
    /\ codec.decoded = Content("model", <<Part("hola")>>)

\* C11: encoding gives none whenever the Turn's role is unset or its first
\* part's text is absent or empty, and the record {role, text} of the first
\* part otherwise: a Turn with text but no role never becomes a record.
C11_EncodeContract ==
    (codec.pc \in {"encoded", "decoded"} /\ codec.turn # None) =>
        IF \/ ~Truthy(codec.turn.role)
           \/ codec.turn.parts = <<>>
           \/ ~Truthy(codec.turn.parts[1].text)
        THEN codec.record = [isNone |-> TRUE]
        ELSE codec.record = [role |-> codec.turn.role,
                             text |-> codec.turn.parts[1].text]

\* C12: decoding never raises; it gives none for the none record and for
\* every flat record whose role or text is absent, none or empty, and the
\* single-part Turn of that role and text for every other record.
C12_DecodeContract ==
    codec.pc = "decoded_record" =>
        /\ ~IsRaise(codec.decoded)
        /\ IF \/ codec.record = [isNone |-> TRUE]
              \/ codec.record.role \in {Missing, NoneStr, ""}
              \/ codec.record.text \in {Missing, NoneStr, ""}
           THEN codec.decoded = [isNone |-> TRUE]
           ELSE codec.decoded = [role |-> codec.record.role,
                                 parts |-> <<[text |-> codec.record.text]>>]

\* C14: a POST /ask makes at most two external calls, the second one with
\* the transcript of the first one extended; the second call is made only
\* after a first call that returned normally with at least one tool-call
\* request; once a call has raised, the request makes no further external
\* call and no tool invocation: one call in total when the first raises,
\* two when the second raises.
C14_TwoCallsNoRetry ==
    [][\A w \in Workers :
        LET p == req[w]
            q == req'[w]
        IN /\ Len(q.calls) <= 2 /\ Len(q.replies) = Len(q.calls)
           /\ q.pc = "CALL_1" => q.calls = <<>>
           /\ q.pc = "CALL_2" => Len(q.calls) = 1
           /\ (Len(q.calls) = 2 \/ q.pc = "CALL_2") =>
                 /\ ~IsRaise(q.replies[1])
                 /\ q.replies[1].function_calls # <<>>
           /\ Len(q.calls) = 2 => IsPrefix(q.calls[1], q.calls[2])
           /\ (Len(q.calls) >= 1 /\ IsRaise(q.replies[1])) =>
                 Len(q.calls) = 1 /\ q.invoked = <<>>
           /\ (p.pc \notin {"idle", "done"}
               /\ \E i \in 1..Len(p.replies) : IsRaise(p.replies[i])) =>
                 /\ q.calls = p.calls /\ q.invoked = p.invoked
                 /\ q.pc \in {"respond", "done"}]_vars

\* a request answered after its second call raised: two calls were made
C14_Witness ==
    \E w \in Workers :
        /\ req[w].op = "POST" /\ req[w].pc = "done" /\ req[w].status = 200
        /\ Len(req[w].calls) = 2
        /\ ~IsRaise(req[w].replies[1]) /\ IsRaise(req[w].replies[2])
        /\ Len(req[w].invoked) = 1

\* C15: a request invokes the local tool at most once; when the first
\* reply carries tool-call requests, the one dispatched is the first of the
\* list (the tool is invoked with its arguments, or not at all when it names
\* no registered tool or has no arguments, and the tool-result Turn bears
\* its name), whatever the others are; the step of the second call invokes
\* nothing and ends the orchestration, also when the second reply carries
\* tool-call requests, so that no third call follows.
C15_OneToolInvocation ==
    [][\A w \in Workers :
        LET p == req[w]
            q == req'[w]
        IN /\ Len(q.invoked) <= 1
           /\ (Len(q.replies) >= 1 /\ ~IsRaise(q.replies[1])) =>
                 IF q.replies[1].function_calls = <<>>
                 THEN q.invoked = <<>>
                 ELSE LET first == q.replies[1].function_calls[1]
                      IN /\ q.invoked =
                               IF first.args # None
                                  /\ first.name = "check_health_status"
                               THEN <<first.args>> ELSE <<>>
                         /\ Len(q.calls) = 2 =>
                               Last(q.calls[2]).parts[1].function_response.name
                                   = first.name
           /\ p.pc = "CALL_2" =>
                 /\ q.invoked = p.invoked
                 /\ q.pc = "respond" /\ Len(q.calls) = 2
                 /\ ~IsRaise(q.replies[2]) =>
                       q.ai_response_text = q.replies[2].text]_vars

\* a first reply with two tool-call requests, the first one unknown, and a
\* second reply that requests the tool again: nothing was invoked, two calls
C15_Witness ==
    \E w \in Workers :
        /\ req[w].op = "POST" /\ req[w].pc = "done" /\ req[w].status = 200
        /\ Len(req[w].calls) = 2
        /\ ~IsRaise(req[w].replies[1]) /\ ~IsRaise(req[w].replies[2])
        /\ req[w].replies[1].function_calls = <<CallUnknown, CallMovimiento>>
        /\ req[w].replies[2].function_calls = <<CallMovimiento>>
        /\ req[w].invoked = <<>>
        /\ req[w].body.response = "Un momento."

\* a stored entry that is a record with a role and a text
IsStoredRecord(item) ==
    item # None /\ item.role \notin {Missing, NoneStr, ""}
                /\ item.text \notin {Missing, NoneStr, ""}

\* the rich Turns of the stored entries that are records, in stored order
RichTurns(serialized_history) ==
    LET kept == SelectSeq(serialized_history, IsStoredRecord)
    IN [i \in 1..Len(kept) |->
            [role |-> kept[i].role, parts |-> <<[text |-> kept[i].text]>>]]

\* C16: the transcript of the first call is the stored entries of the
\* request's session that decode to a Turn, as single-part Turns in stored
\* order, followed by one user Turn holding user_input; stored entries that
\* decode to none are left out and the request goes on without an error;
\* the decoded history list the orchestrator was given stays as it was up
\* to the answer, the tool turns being added to the transcript only.
C16_FirstTranscript ==
    \A w \in Workers :
        LET q == req[w]
            history == RichTurns(SessionGet(q.before))
            transcript == history
                          \o <<[role |-> "user",
                                parts |-> <<[text |-> q.user_input]>>]>>
        IN (q.op = "POST" /\ q.user_input \notin {NoneStr, ""}) =>
              /\ q.pc \in {"CALL_1", "CALL_2", "respond"}
                 \/ (q.pc = "done" /\ q.status = 200)
              /\ q.gemini_history = history
              /\ q.pc = "CALL_1" => q.contents = transcript
              /\ Len(q.calls) >= 1 => q.calls[1] = transcript
              /\ Len(q.calls) = 2 =>
                    /\ Len(q.calls[2]) = Len(transcript) + 2
                    /\ SubSeq(q.calls[2], 1, Len(transcript)) = transcript

\* a first call made for a session whose stored history holds a user
\* record and an entry that decodes to none: the transcript is the user
\* record's Turn and the new user Turn
C16_Witness ==
    \E w \in Workers :
        /\ req[w].op = "POST" /\ Len(req[w].calls) >= 1
        /\ SessionGet(req[w].before) = <<[role |-> "user", text |-> "hola"], None>>
        /\ req[w].user_input = "¿me he movido hoy?"
        /\ req[w].calls[1] =
              <<[role |-> "user", parts |-> <<[text |-> "hola"]>>],
                [role |-> "user", parts |-> <<[text |-> "¿me he movido hoy?"]>>]>>
        /\ Len(req[w].gemini_history) = 1

\* whether some substring of s is the word when its case is ignored
HasWord(word, s) ==
    \E i \in 1..Len(s) : \E j \in i..Len(s) : lower(SubSeq(s, i, j)) = word

\* C18: check_health_status answers the movement string when the metric
\* holds the movement keyword in any case and at any place, also when it
\* holds the pressure keyword too; else the blood-pressure string when it
\* holds the pressure keyword; else the not-monitored string with the metric
\* as it was given; the answer depends on the metric alone, and no session
\* and no request is touched.
C18_ToolMatches ==
    tool.pc = "checked" =>
        /\ tool.result =
              IF HasWord("movimiento", tool.metric)
              THEN MOVIMIENTO_STATUS
              ELSE IF HasWord("presión", tool.metric)
              THEN PRESION_STATUS
              ELSE "Métrica de salud '" \o tool.metric
                       \o "' no monitoreada actualmente."
        /\ session = [s \in Sessions |-> NoHistory]
        /\ req = [w \in Workers |-> IdleReq]

\* a metric with both keywords in upper case, pressure first, was answered
\* with the movement string
C18_Witness ==
    /\ tool.pc = "checked"
    /\ tool.metric = "Mi PRESIÓN y MOVIMIENTO"
    /\ tool.result = MOVIMIENTO_STATUS

\* C19: with requests handled one at a time, every stored history has an
\* even length, and its entries are records whose roles alternate, user at
\* the odd places and model at the even places; none has the role function.
C19_AlternatingHistory ==
    \A s \in Sessions :
        LET h == session[s].chat_history
        IN /\ Len(h) % 2 = 0
           /\ \A i \in 1..Len(h) :
                 /\ h[i] # None
                 /\ h[i].role = (IF i % 2 = 1 THEN "user" ELSE "model")
                 /\ h[i].role # "function"

----------------------------------------------------------------------------
(* Properties of overlapping requests, checked under SpecConc *)

\* C13: a history belongs to one session: a step changes the stored history
\* of a session only when it is a step of a request of that session, and a
\* request that starts reads the history of its own session and builds its
\* transcript from it alone, whatever the other sessions hold and however
\* the requests interleave.
C13_SessionIsolation ==
    [][/\ \A s \in Sessions :
            session'[s] # session[s] =>
                \E w \in Workers : req'[w] # req[w] /\ req'[w].sid = s
       /\ \A w \in Workers :
            (req'[w] # req[w] /\ req[w].pc \in {"idle", "done"}) =>
                /\ req'[w].before = session[req'[w].sid]
                /\ req'[w].pc = "CALL_1" =>
                      req'[w].gemini_history =
                          SelectSeq(Decoded(SessionGet(session[req'[w].sid])),
                                    NotNone)]_vars

\* a POST of session B stored its records while a POST of session A was
\* being handled, and A's session is as it was
C13_Witness ==
    /\ req[1].op = "POST" /\ req[1].sid = "A" /\ req[1].pc = "CALL_2"
    /\ req[2].op = "POST" /\ req[2].sid = "B" /\ req[2].pc = "done"
    /\ req[2].status = 200
    /\ Len(session["B"].chat_history) = 2
    /\ session["A"] = req[1].before /\ session["A"].chat_history = <<>>

\* C17: when two POST /ask of one session have both read the same stored
\* history (each read it before the other stored its result) and both have
\* answered 200, the stored history is the history they read followed by
\* the two entries of one of them only (its user record and its model
\* entry): the entries of the other are lost.
C17_LostUpdate ==
    \A w1, w2 \in Workers :
        (/\ w1 # w2
         /\ req[w1].op = "POST" /\ req[w1].pc = "done" /\ req[w1].status = 200
         /\ req[w2].op = "POST" /\ req[w2].pc = "done" /\ req[w2].status = 200
         /\ req[w1].sid = req[w2].sid
         /\ req[w1].before = req[w2].before) =>
            \E w \in {w1, w2} :
                LET stored == session[req[w].sid].chat_history
                    n == Len(SessionGet(req[w].before))
                IN /\ Len(stored) = n + 2
                   /\ SubSeq(stored, 1, n) = SessionGet(req[w].before)
                   /\ stored[n + 1] = [role |-> "user", text |-> req[w].user_input]
                   /\ stored[n + 2] =
                         IF req[w].body.response \in {NoneStr, ""}
                         THEN None
                         ELSE [role |-> "model", text |-> req[w].body.response]

\* two overlapping POSTs with different inputs both answered 200, and the
\* stored history holds the records of the second worker only
C17_Witness ==
    /\ req[1].op = "POST" /\ req[1].pc = "done" /\ req[1].status = 200
    /\ req[2].op = "POST" /\ req[2].pc = "done" /\ req[2].status = 200
    /\ req[1].sid = "A" /\ req[2].sid = "A"
    /\ req[1].before = req[2].before
    /\ req[1].user_input = "hola" /\ req[2].user_input = "¿me he movido hoy?"
    /\ session["A"].chat_history =
          <<[role |-> "user", text |-> "¿me he movido hoy?"],
            [role |-> "model", text |-> "Buenos días."]>>

====
